---- MODULE Spec2Model ----
(***************************************************************************)
(* Model of WallpaperApp.py: the start-up compatibility gate, the settings *)
(* store (load_settings / save_settings), the registry style writer, the   *)
(* BMP normaliser, apply_wallpaper and the Tk event handlers.              *)
(*                                                                         *)
(* Text and files are modelled by what the code can observe of them:       *)
(*   - a path is a string; its extension and its cache name are tables;    *)
(*   - a JSON text is its format ("indent2" is what json.dump(indent=2)    *)
(*     writes, "compact" any other layout) and the sequence of members as  *)
(*     written, duplicates included; json.load turns it into a dict whose  *)
(*     keys are distinct and keep the order of first insertion;            *)
(*   - calls that leave the process (dialogs, registry, Pillow, the        *)
(*     SystemParametersInfoW call) are logged in the order they are made.  *)
(***************************************************************************)
EXTENDS Integers, Sequences, FiniteSets, TLC

VARIABLES
    pc,               \* position of the process (see Init / HInit)
    release,          \* platform.release()
    PIL_AVAILABLE,    \* module flag set by the import at lines 21-25
    fsFiles,          \* user image files that exist on disk
    settingsWritable, \* whether open(SETTINGS_PATH, "w") succeeds
    settingsFile,     \* content of SETTINGS_PATH
    settings,         \* WallpaperApp.settings (NoSettings before the load)
    appDirs,          \* APP_DIR and WALLPAPER_STORE have been created
    guiBuilt,         \* WallpaperApp.__init__ has built the menus and buttons
    gateAnswer,       \* what check_os_compatibility was answered
    registry,         \* values under HKCU\Control Panel\Desktop
    openKeys,         \* registry handles opened and not closed
    cache,            \* files of WALLPAPER_STORE: cache path -> state
    dialogs,          \* message boxes shown by the last step, in order
    calls,            \* outside calls made by the last step, in order
    lastApply,        \* the apply_wallpaper call made by the last step
    fileAfterFirst    \* harness: the file left by the first save(load())

vars == <<pc, release, PIL_AVAILABLE, fsFiles, settingsWritable, settingsFile,
          settings, appDirs, guiBuilt, gateAnswer, registry, openKeys,
          cache, dialogs, calls, lastApply, fileAfterFirst>>

(***************************************************************************)
(* Bounds of the model.                                                    *)
(***************************************************************************)
\* longest member list of a settings file explored by the load/save harness
MaxItems == 3
\* most registry handles the model lets a session leave open
MaxLeaks == 1

(***************************************************************************)
(* JSON values and documents.                                              *)
(***************************************************************************)
JStr(s) == [t |-> "str", s |-> s, l |-> <<>>]
JList(l) == [t |-> "list", s |-> "", l |-> l]

Member(k, v) == [k |-> k, v |-> v]

\* t = "obj": a dict, items are its members in order.
\* t = "arr": a list of strings, items[i].k are its elements.
\* t = "str": a string, items[i].k are the key names occurring in it.
\* t = "scalar": a number, true, false or null.
Doc(t, items) == [t |-> t, items |-> items]

NoSettings == Doc("none", <<>>)

Keys(items) == {items[i].k : i \in 1..Len(items)}

\* `k in data`, defined for dict, list and str; raises TypeError otherwise
Contains(data, k) == k \in Keys(data.items)

\* data[k] of a dict that holds k
Get(data, k) ==
    LET i == CHOOSE j \in 1..Len(data.items) : data.items[j].k = k
    IN  data.items[i].v

\* data[k] = v on a dict: replaces in place, or appends a new key at the end
SetItem(data, k, v) ==
    IF Contains(data, k)
    THEN Doc("obj", [i \in 1..Len(data.items) |->
                        IF data.items[i].k = k THEN Member(k, v) ELSE data.items[i]])
    ELSE Doc("obj", Append(data.items, Member(k, v)))

DEFAULT_SETTINGS ==
    Doc("obj", << Member("last_wallpaper", JStr("")),
                  Member("style", JStr("stretch")),
                  Member("favorites", JList(<<>>)) >>)

(***************************************************************************)
(* The settings file.                                                      *)
(***************************************************************************)
AbsentFile == [state |-> "absent", fmt |-> "", t |-> "none", items |-> <<>>]
GarbageFile == [state |-> "garbage", fmt |-> "", t |-> "none", items |-> <<>>]
JsonFile(fmt, t, items) == [state |-> "json", fmt |-> fmt, t |-> t, items |-> items]

\* dict construction of json.load: a repeated key keeps its first position
\* and takes its last value
RECURSIVE ParseMembers(_, _)
ParseMembers(raw, acc) ==
    IF raw = <<>> THEN acc
    ELSE ParseMembers(Tail(raw), SetItem(acc, Head(raw).k, Head(raw).v))

json_load(file) ==
    IF file.t = "obj" THEN ParseMembers(file.items, Doc("obj", <<>>))
    ELSE Doc(file.t, file.items)

\* variant: json.dump into a file opened with "a", which adds the text to
\* what the file holds
json_dump_append(data, old) ==
    IF old.state = "absent" THEN JsonFile("indent2", data.t, data.items)
    ELSE GarbageFile

\* json.dump(settings, f, indent=2) into a file opened with "w"
json_dump(data, old) == JsonFile("indent2", data.t, data.items)

\* the loop of lines 84-86; ok = FALSE when a statement of it raises
RECURSIVE Backfill(_, _)
Backfill(data, defaults) ==
    IF defaults = <<>> THEN [ok |-> TRUE, data |-> data]
    ELSE IF data.t \notin {"obj", "arr", "str"} THEN [ok |-> FALSE, data |-> data]
    ELSE IF Contains(data, Head(defaults).k) THEN Backfill(data, Tail(defaults))
    ELSE IF data.t # "obj" THEN [ok |-> FALSE, data |-> data]
    ELSE Backfill(SetItem(data, Head(defaults).k, Head(defaults).v), Tail(defaults))

load_settings(file) ==
    IF file.state = "absent" THEN DEFAULT_SETTINGS
    ELSE IF file.state = "garbage" THEN DEFAULT_SETTINGS
    ELSE LET r == Backfill(json_load(file), DEFAULT_SETTINGS.items)
         IN  IF r.ok THEN r.data ELSE DEFAULT_SETTINGS

\* variant: the file is opened with "a" instead of "w"
save_settings_append(data, old, writable) ==
    IF writable THEN [file |-> json_dump_append(data, old), dialogs |-> <<>>]
    ELSE [file |-> old, dialogs |-> <<"showerror:Save Error">>]

\* the file left and the dialogs shown
save_settings(data, old, writable) ==
    IF writable THEN [file |-> json_dump(data, old), dialogs |-> <<>>]
    ELSE [file |-> old, dialogs |-> <<"showerror:Save Error">>]

(***************************************************************************)
(* Paths, the platform and the image files.                                *)
(***************************************************************************)
ImgA == "C:/pics/a.jpg"
ImgB == "C:/pics/b.BMP"
UserPaths == {ImgA, ImgB}

Releases == {"XP", "10", "11"}

\* str.lower() on the strings of the model
Lower(s) ==
    CASE s = "XP" -> "xp"
      [] s = ".BMP" -> ".bmp"
      [] OTHER -> s

\* os.path.splitext(p)[1]
SplitExt(p) ==
    CASE p = ImgA -> ".jpg"
      [] p = ImgB -> ".BMP"
      [] OTHER -> ""

\* 'xp' in s
HasXp(s) == s \in {"xp"}

\* os.path.join(WALLPAPER_STORE, f"{abs(hash(src_path))}.bmp")
BmpPath(p) ==
    CASE p = ImgA -> "APP_DIR/wallpapers/hashA.bmp"
      [] p = ImgB -> "APP_DIR/wallpapers/hashB.bmp"
      [] OTHER -> "APP_DIR/wallpapers/hash0.bmp"

CachePaths == {BmpPath(p) : p \in UserPaths}

\* os.path.exists(path): "" never exists
Exists(path, files) == path \in files

(***************************************************************************)
(* Outside calls are logged as records of one shape.                       *)
(***************************************************************************)
Call(op, name, val, ok) == [op |-> op, name |-> name, val |-> val, ok |-> ok]

(***************************************************************************)
(* convert_to_bmp_if_needed.  conv is what Pillow does with this file:     *)
(*   "ok"            Image.open, convert and save succeed                  *)
(*   "decode_fail"   Image.open or convert raises                          *)
(*   "encode_fail"   img.save raises before it has written bmp_path        *)
(*   "encode_partial" img.save raises after it has opened and written part *)
(*                   of bmp_path                                           *)
(* The result carries, besides the returned path, the cache directory it   *)
(* leaves, the dialogs it shows and what Pillow was asked to do.           *)
(***************************************************************************)
ConvOutcomes == {"ok", "decode_fail", "encode_fail", "encode_partial"}

\* the early returns of lines 125-134
NotConverted(src_path, cch, shown) ==
    [path |-> src_path, cache |-> cch, dialogs |-> shown, pillow |-> "not_used"]

\* the try block of lines 136-144
Converted(src_path, cch, conv) ==
    CASE conv = "ok" ->
            [path |-> BmpPath(src_path),
             cache |-> [cch EXCEPT ![BmpPath(src_path)] = "bmp"],
             dialogs |-> <<>>, pillow |-> conv]
      [] conv = "encode_partial" ->
            [path |-> src_path,
             cache |-> [cch EXCEPT ![BmpPath(src_path)] = "partial"],
             dialogs |-> <<"showerror:Error">>, pillow |-> conv]
      [] OTHER ->
            [path |-> src_path, cache |-> cch, dialogs |-> <<"showerror:Error">>,
             pillow |-> conv]

\* variant: the extension is compared without .lower()
convert_to_bmp_caseSensitive(src_path, rel, pil, cch, conv) ==
    LET win_release == Lower(rel)
        need_bmp == HasXp(win_release)
        ext == SplitExt(src_path)
    IN  IF ~need_bmp THEN NotConverted(src_path, cch, <<>>)
        ELSE IF ext = ".bmp" THEN NotConverted(src_path, cch, <<>>)
        ELSE IF ~pil THEN NotConverted(src_path, cch, <<"showwarning:Pillow Missing">>)
        ELSE Converted(src_path, cch, conv)

convert_to_bmp_if_needed(src_path, rel, pil, cch, conv) ==
    LET win_release == Lower(rel)
        need_bmp == HasXp(win_release)
        ext == Lower(SplitExt(src_path))
    IN  IF ~need_bmp THEN NotConverted(src_path, cch, <<>>)
        ELSE IF ext = ".bmp" THEN NotConverted(src_path, cch, <<>>)
        ELSE IF ~pil THEN NotConverted(src_path, cch, <<"showwarning:Pillow Missing">>)
        ELSE Converted(src_path, cch, conv)

(***************************************************************************)
(* set_wallpaper_registry_style.  regOut is what the registry does:        *)
(*   "open_fail"   OpenKey raises                                          *)
(*   "ok"          every call succeeds                                     *)
(*   "fail_first"  the first SetValueEx of the call raises                 *)
(*   "fail_second" the second SetValueEx of the call raises                *)
(* finalized: whether the runtime has destroyed the handle object (and so  *)
(* closed the handle) by the time the function returns, when the function  *)
(* itself has not closed it.                                               *)
(***************************************************************************)
RegOutcomes == {"open_fail", "ok", "fail_first", "fail_second"}

\* variant: "fill" writes style code 6 (the code of "fit")
StyleWrites_fill6(style) ==
    CASE style = "tile" -> << <<"WallpaperStyle", "0">>, <<"TileWallpaper", "1">> >>
      [] style = "center" -> << <<"WallpaperStyle", "0">>, <<"TileWallpaper", "0">> >>
      [] style = "stretch" -> << <<"WallpaperStyle", "2">>, <<"TileWallpaper", "0">> >>
      [] style = "fill" -> << <<"WallpaperStyle", "6">>, <<"TileWallpaper", "0">> >>
      [] OTHER -> <<>>

\* the if/elif chain of lines 103-114: the SetValueEx calls it makes, in order
StyleWrites(style) ==
    CASE style = "tile" -> << <<"WallpaperStyle", "0">>, <<"TileWallpaper", "1">> >>
      [] style = "center" -> << <<"WallpaperStyle", "0">>, <<"TileWallpaper", "0">> >>
      [] style = "stretch" -> << <<"WallpaperStyle", "2">>, <<"TileWallpaper", "0">> >>
      [] style = "fill" -> << <<"WallpaperStyle", "10">>, <<"TileWallpaper", "0">> >>
      [] OTHER -> <<>>

\* index of the SetValueEx that raises, 0 for none
FailAt(regOut, n) ==
    IF regOut = "fail_first" /\ n >= 1 THEN 1
    ELSE IF regOut = "fail_second" /\ n >= 2 THEN 2
    ELSE 0

RECURSIVE ApplyWrites(_, _, _)
ApplyWrites(reg, writes, n) ==
    IF n = 0 THEN reg
    ELSE [ApplyWrites(reg, writes, n - 1) EXCEPT ![writes[n][1]] = writes[n][2]]

set_wallpaper_registry_style(style, reg, handles, regOut, finalized) ==
    IF regOut = "open_fail"
    THEN [registry |-> reg, openKeys |-> handles,
          calls |-> << Call("OpenKey", "Control Panel\\Desktop", "", FALSE) >>]
    ELSE LET writes == StyleWrites(style)
             f == FailAt(regOut, Len(writes))
             done == IF f = 0 THEN Len(writes) ELSE f - 1
             log == [i \in 1..(IF f = 0 THEN Len(writes) ELSE f) |->
                        Call("SetValueEx", writes[i][1], writes[i][2], i # f)]
         IN  [registry |-> ApplyWrites(reg, writes, done),
              openKeys |-> IF f = 0 \/ finalized THEN handles ELSE handles + 1,
              calls |-> << Call("OpenKey", "Control Panel\\Desktop", "", TRUE) >>
                        \o log
                        \o (IF f = 0
                            THEN << Call("CloseKey", "Control Panel\\Desktop", "", TRUE) >>
                            ELSE <<>>)]

(***************************************************************************)
(* apply_wallpaper.  spiOk: whether SystemParametersInfoW reports success. *)
(***************************************************************************)
NoApply == [called |-> FALSE, path |-> "", style |-> "", ret |-> FALSE,
            pillow |-> "not_used"]

\* variant: the OS is handed path instead of final_path
apply_wallpaper_rawPath(path, style, st, conv, regOut, finalized, spiOk) ==
    IF ~Exists(path, st.fsFiles)
    THEN [ret |-> FALSE, calls |-> <<>>, dialogs |-> <<>>, cache |-> st.cache,
          pillow |-> "not_used",
          registry |-> st.registry, openKeys |-> st.openKeys]
    ELSE LET c == convert_to_bmp_if_needed(path, st.release, st.pil, st.cache, conv)
             r == set_wallpaper_registry_style(style, st.registry, st.openKeys,
                                               regOut, finalized)
         IN  [ret |-> TRUE,
              calls |-> << Call("convert_to_bmp_if_needed", path, c.path, TRUE) >>
                        \o r.calls
                        \o << Call("SystemParametersInfoW", "20", path, spiOk) >>,
              dialogs |-> c.dialogs,
              pillow |-> c.pillow,
              cache |-> c.cache,
              registry |-> r.registry,
              openKeys |-> r.openKeys]

\* variant: without the os.path.exists test of lines 148-149
apply_wallpaper_noExistsCheck(path, style, st, conv, regOut, finalized, spiOk) ==
    LET c == convert_to_bmp_if_needed(path, st.release, st.pil, st.cache, conv)
        r == set_wallpaper_registry_style(style, st.registry, st.openKeys,
                                          regOut, finalized)
    IN  [ret |-> TRUE,
         calls |-> << Call("convert_to_bmp_if_needed", path, c.path, TRUE) >>
                   \o r.calls
                   \o << Call("SystemParametersInfoW", "20", c.path, spiOk) >>,
         dialogs |-> c.dialogs,
         pillow |-> c.pillow,
         cache |-> c.cache,
         registry |-> r.registry,
         openKeys |-> r.openKeys]

\* st: the state the call reads (fsFiles, release, pil, cache, registry,
\* openKeys)
apply_wallpaper(path, style, st, conv, regOut, finalized, spiOk) ==
    IF ~Exists(path, st.fsFiles)
    THEN [ret |-> FALSE, calls |-> <<>>, dialogs |-> <<>>, cache |-> st.cache,
          pillow |-> "not_used",
          registry |-> st.registry, openKeys |-> st.openKeys]
    ELSE LET final_path == convert_to_bmp_if_needed(path, st.release, st.pil,
                                                    st.cache, conv)
             r == set_wallpaper_registry_style(style, st.registry, st.openKeys,
                                               regOut, finalized)
         IN  [ret |-> TRUE,
              calls |-> << Call("convert_to_bmp_if_needed", path, final_path.path, TRUE) >>
                        \o r.calls
                        \o << Call("SystemParametersInfoW", "20", final_path.path, spiOk) >>,
              dialogs |-> final_path.dialogs,
              pillow |-> final_path.pillow,
              cache |-> final_path.cache,
              registry |-> r.registry,
              openKeys |-> r.openKeys]

(***************************************************************************)
(* Initial states: the machine the program is started on.                  *)
(***************************************************************************)
Styles == {"tile", "center", "stretch", "fill"}
StoredStyles == Styles \cup {"mosaic"}

FullRecord(lw, style) ==
    << Member("last_wallpaper", JStr(lw)), Member("style", JStr(style)),
       Member("favorites", JList(<<>>)) >>

AllKeysArray ==
    << Member("last_wallpaper", JStr("")), Member("style", JStr("")),
       Member("favorites", JStr("")) >>

\* settings files the application is started with: none, one that is not
\* JSON, a JSON array, a partial record, and full records naming an image
\* (which may since have been deleted) with every style value
AppFiles ==
    {AbsentFile, GarbageFile, JsonFile("compact", "arr", AllKeysArray),
     JsonFile("indent2", "obj", << Member("style", JStr("tile")) >>),
     JsonFile("indent2", "obj", FullRecord(ImgB, "fill"))}
    \cup {JsonFile("compact", "obj", FullRecord(ImgA, s)) : s \in StoredStyles}

InitEffects ==
    /\ settings = NoSettings
    /\ appDirs = FALSE
    /\ guiBuilt = FALSE
    /\ gateAnswer = "none"
    /\ registry = [WallpaperStyle |-> "orig", TileWallpaper |-> "orig"]
    /\ openKeys = 0
    /\ cache = [p \in CachePaths |-> "none"]
    /\ dialogs = <<>>
    /\ calls = <<>>
    /\ lastApply = NoApply
    /\ fileAfterFirst = AbsentFile

Init ==
    /\ pc = "gate"
    /\ release \in Releases
    \* the flag is read only where a conversion is needed
    /\ PIL_AVAILABLE \in (IF HasXp(Lower(release)) THEN BOOLEAN ELSE {TRUE})
    /\ fsFiles \in SUBSET UserPaths
    /\ settingsWritable \in BOOLEAN
    /\ settingsFile \in AppFiles
    /\ InitEffects

env == <<release, PIL_AVAILABLE, fsFiles, settingsWritable>>
outside == <<registry, openKeys, cache>>

(***************************************************************************)
(* Start-up: lines 31-56, 59-71 and 207-210.                               *)
(***************************************************************************)
TooNew == {"10", "11"}

\* variant: the answer of the prompt is not acted on
check_os_compatibility_ignoreAnswer ==
    /\ pc = "gate"
    /\ \E ans \in BOOLEAN :
          /\ gateAnswer' = IF release \in TooNew
                           THEN (IF ans THEN "yes" ELSE "no") ELSE "not_asked"
          /\ dialogs' = <<"showinfo:Continue">>
          /\ pc' = "setup"
    /\ calls' = <<>>
    /\ lastApply' = NoApply
    /\ UNCHANGED <<env, outside, settingsFile, settings, appDirs, guiBuilt, fileAfterFirst>>

check_os_compatibility ==
    /\ pc = "gate"
    /\ IF release \in TooNew
       THEN \E ans \in BOOLEAN :
               IF ~ans
               THEN /\ gateAnswer' = "no"
                    /\ dialogs' = <<"askyesno:Unsupported Windows Version",
                                    "showerror:Program Closing">>
                    /\ pc' = "terminated"
               ELSE /\ gateAnswer' = "yes"
                    /\ dialogs' = <<"askyesno:Unsupported Windows Version",
                                    "showinfo:Continue">>
                    /\ pc' = "setup"
       ELSE /\ gateAnswer' = "not_asked"
            /\ dialogs' = <<"showinfo:Compatible System">>
            /\ pc' = "setup"
    /\ calls' = <<>>
    /\ lastApply' = NoApply
    /\ UNCHANGED <<env, outside, settingsFile, settings, appDirs, guiBuilt, fileAfterFirst>>

\* APP_DIR = get_appdata_dir(); os.makedirs(WALLPAPER_STORE, exist_ok=True)
get_appdata_dir ==
    /\ pc = "setup"
    /\ appDirs' = TRUE
    /\ pc' = "main"
    /\ dialogs' = <<>>
    /\ calls' = <<>>
    /\ lastApply' = NoApply
    /\ UNCHANGED <<env, outside, settingsFile, settings, guiBuilt, gateAnswer, fileAfterFirst>>

\* root = tk.Tk(); app = WallpaperApp(root); root.mainloop()
WallpaperApp_init ==
    /\ pc = "main"
    /\ settings' = load_settings(settingsFile)
    /\ guiBuilt' = TRUE
    /\ pc' = "running"
    /\ dialogs' = <<>>
    /\ calls' = <<>>
    /\ lastApply' = NoApply
    /\ UNCHANGED <<env, outside, settingsFile, appDirs, gateAnswer, fileAfterFirst>>

(***************************************************************************)
(* The event handlers, each run to completion by the Tk main loop.  A      *)
(* handler that raises is reported by Tk and leaves the loop running.      *)
(***************************************************************************)
session == <<pc, appDirs, guiBuilt, gateAnswer, fileAfterFirst>>

open_image ==
    /\ pc = "running"
    /\ \E img_path \in fsFiles \cup {""} :
          settings' = IF img_path # "" /\ settings.t = "obj"
                      THEN SetItem(settings, "last_wallpaper", JStr(img_path))
                      ELSE settings
    /\ dialogs' = <<>>
    /\ calls' = <<>>
    /\ lastApply' = NoApply
    /\ UNCHANGED <<env, outside, session, settingsFile>>

\* File > Save Settings: lambda: save_settings(self.settings)
SaveSettings ==
    /\ pc = "running"
    /\ LET r == save_settings(settings, settingsFile, settingsWritable)
       IN  /\ settingsFile' = r.file
           /\ dialogs' = r.dialogs
    /\ calls' = <<>>
    /\ lastApply' = NoApply
    /\ UNCHANGED <<env, outside, session, settings>>

\* File > Exit: self.root.quit, after which mainloop returns and the
\* process ends
Exit ==
    /\ pc = "running"
    /\ pc' = "exited"
    /\ dialogs' = <<>>
    /\ calls' = <<>>
    /\ lastApply' = NoApply
    /\ UNCHANGED <<env, outside, settingsFile, settings, appDirs, guiBuilt,
                   gateAnswer, fileAfterFirst>>

\* What the outside world can do during apply_wallpaper(path, style).  An
\* outcome the call never observes (of a conversion it does not attempt, of
\* a SetValueEx it does not make) is not enumerated a second time.
Outcomes(path, style) ==
    LET converts == /\ HasXp(Lower(release))
                    /\ Lower(SplitExt(path)) # ".bmp"
                    /\ PIL_AVAILABLE
        n == Len(StyleWrites(style))
        regs == {"open_fail", "ok"}
                \cup (IF n >= 1 THEN {"fail_first"} ELSE {})
                \cup (IF n >= 2 THEN {"fail_second"} ELSE {})
    IN  IF ~Exists(path, fsFiles)
        THEN {[conv |-> "ok", regOut |-> "ok", finalized |-> FALSE, spiOk |-> TRUE]}
        ELSE {o \in [conv : IF converts THEN ConvOutcomes ELSE {"ok"},
                     regOut : regs, finalized : BOOLEAN, spiOk : BOOLEAN] :
                 o.finalized => o.regOut \in {"fail_first", "fail_second"}}

apply_current ==
    /\ pc = "running"
    /\ IF settings.t # "obj"
       THEN \* self.settings["last_wallpaper"] raises TypeError
            /\ dialogs' = <<>>
            /\ calls' = <<>>
            /\ lastApply' = NoApply
            /\ UNCHANGED outside
       ELSE IF Get(settings, "last_wallpaper").s = ""
       THEN /\ dialogs' = <<"showwarning:No File">>
            /\ calls' = <<>>
            /\ lastApply' = NoApply
            /\ UNCHANGED outside
       ELSE LET path == Get(settings, "last_wallpaper").s
                style == Get(settings, "style").s
                st == [fsFiles |-> fsFiles, release |-> release,
                       pil |-> PIL_AVAILABLE, cache |-> cache,
                       registry |-> registry, openKeys |-> openKeys]
            IN  \E o \in Outcomes(path, style) :
                   \* r: the one result of the call under outcome o
                   \E r \in {apply_wallpaper(path, style, st, o.conv, o.regOut,
                                            o.finalized, o.spiOk)} :
                       /\ r.openKeys <= MaxLeaks
                       /\ dialogs' = r.dialogs
                                     \o (IF r.ret THEN <<"showinfo:Success">> ELSE <<>>)
                       /\ calls' = r.calls
                       /\ lastApply' = [called |-> TRUE, path |-> path,
                                        style |-> style, ret |-> r.ret,
                                        pillow |-> r.pillow]
                       /\ cache' = r.cache
                       /\ registry' = r.registry
                       /\ openKeys' = r.openKeys
    /\ UNCHANGED <<env, session, settingsFile, settings>>

check_for_updates ==
    /\ pc = "running"
    /\ dialogs' = <<"showinfo:Updates">>
    /\ calls' = <<>>
    /\ lastApply' = NoApply
    /\ UNCHANGED <<env, outside, session, settingsFile, settings>>

show_about ==
    /\ pc = "running"
    /\ dialogs' = <<"showinfo:About">>
    /\ calls' = <<>>
    /\ lastApply' = NoApply
    /\ UNCHANGED <<env, outside, session, settingsFile, settings>>

Startup == check_os_compatibility \/ get_appdata_dir \/ WallpaperApp_init

Next ==
    \/ check_os_compatibility
    \/ get_appdata_dir
    \/ WallpaperApp_init
    \/ open_image
    \/ SaveSettings
    \/ Exit
    \/ apply_current
    \/ check_for_updates
    \/ show_about

Spec == Init /\ [][Next]_vars

(***************************************************************************)
(* save(load()) run twice on a settings file, as a program of four steps.  *)
(***************************************************************************)
FileMembers ==
    { Member("last_wallpaper", JStr(ImgA)), Member("style", JStr("fill")),
      Member("style", JStr("mosaic")), Member("favorites", JList(<<>>)),
      Member("theme", JStr("dark")) }

MemberLists == UNION {[1..n -> FileMembers] : n \in 0..MaxItems}

\* settings files of every kind: absent, not JSON, a JSON value that is no
\* object, and objects with any members in any order and layout
Files ==
    {AbsentFile, GarbageFile,
     JsonFile("compact", "arr", AllKeysArray),
     JsonFile("compact", "arr", << Member("style", JStr("")) >>),
     JsonFile("compact", "str", AllKeysArray),
     JsonFile("compact", "str", <<>>),
     JsonFile("compact", "scalar", <<>>)}
    \cup {JsonFile(fmt, "obj", ms) : fmt \in {"indent2", "compact"}, ms \in MemberLists}

HInit ==
    /\ pc = "load1"
    /\ release = "XP"
    /\ PIL_AVAILABLE = TRUE
    /\ fsFiles = UserPaths
    /\ settingsWritable \in BOOLEAN
    /\ settingsFile \in Files
    /\ InitEffects

RoundTripLoad ==
    /\ pc \in {"load1", "load2"}
    /\ settings' = load_settings(settingsFile)
    /\ pc' = IF pc = "load1" THEN "save1" ELSE "save2"
    /\ UNCHANGED <<env, outside, settingsFile, appDirs, guiBuilt, gateAnswer,
                   dialogs, calls, lastApply, fileAfterFirst>>

RoundTripSave ==
    /\ pc \in {"save1", "save2"}
    /\ LET r == save_settings(settings, settingsFile, settingsWritable)
       IN  /\ settingsFile' = r.file
           /\ dialogs' = r.dialogs
           /\ fileAfterFirst' = IF pc = "save1" THEN r.file ELSE fileAfterFirst
    /\ pc' = IF pc = "save1" THEN "load2" ELSE "done"
    /\ UNCHANGED <<env, outside, settings, appDirs, guiBuilt, gateAnswer,
                   calls, lastApply>>

HNext == RoundTripLoad \/ RoundTripSave

SpecFile == HInit /\ [][HNext]_vars

\* the program with the scheduling of its start-up: every start-up statement
\* that can run does run
FairSpec == Spec /\ WF_vars(Startup)

(***************************************************************************)
(* Vocabulary of the properties, written from the statements checked and   *)
(* not from the code.                                                      *)
(***************************************************************************)
RecordFields == {"last_wallpaper", "style", "favorites"}

DefaultOf(k) ==
    CASE k = "last_wallpaper" -> JStr("")
      [] k = "style" -> JStr("stretch")
      [] k = "favorites" -> JList(<<>>)

\* the value a JSON object text gives to k: that of its last member named k
StoredValue(file, k) ==
    LET last == CHOOSE i \in 1..Len(file.items) :
                    /\ file.items[i].k = k
                    /\ \A j \in (i + 1)..Len(file.items) : file.items[j].k # k
    IN  file.items[last].v

\* the fixed table: style -> <<style code, tile flag>>
StyleTable(style) ==
    CASE style = "tile" -> <<"0", "1">>
      [] style = "center" -> <<"0", "0">>
      [] style = "stretch" -> <<"2", "0">>
      [] style = "fill" -> <<"10", "0">>

\* the values an apply step has written to the configuration store, in order
RECURSIVE StoreWrites(_)
StoreWrites(log) ==
    IF log = <<>> THEN <<>>
    ELSE IF Head(log).op = "SetValueEx" /\ Head(log).ok
         THEN << <<Head(log).name, Head(log).val>> >> \o StoreWrites(Tail(log))
         ELSE StoreWrites(Tail(log))

StoreFailed(log) ==
    \E i \in 1..Len(log) : log[i].op \in {"OpenKey", "SetValueEx"} /\ ~log[i].ok

IsPrefix(a, b) == Len(a) <= Len(b) /\ \A i \in 1..Len(a) : a[i] = b[i]

Applied == lastApply.called /\ Exists(lastApply.path, fsFiles)
Rejected == lastApply.called /\ ~Exists(lastApply.path, fsFiles)

RequiresBmp(rel) == rel = "XP"
IsBmpFile(p) == p = ImgB
InCacheDir(p) == p \in CachePaths

C2_MissingPath ==
    [][(lastApply'.called /\ ~Exists(lastApply'.path, fsFiles)) =>
          /\ lastApply'.ret = FALSE
          /\ calls' = <<>>
          /\ lastApply'.pillow = "not_used"
          /\ UNCHANGED <<registry, openKeys, cache>>]_vars

C2_Witness == Rejected /\ lastApply.style = "mosaic" /\ lastApply.path = ImgA

(***************************************************************************)
(* C3.  apply_wallpaper on an existing path calls, in this order, the      *)
(* normaliser, the registry style writer and SystemParametersInfoW; the    *)
(* last is called once, with the path the normaliser returned; the result  *)
(* is True whatever the registry calls and SystemParametersInfoW report.   *)
(***************************************************************************)
C3_ApplyOrder ==
    Applied =>
        LET n == Len(calls)
        IN  /\ n >= 3
            /\ calls[1].op = "convert_to_bmp_if_needed"
            /\ calls[1].name = lastApply.path
            /\ calls[2].op = "OpenKey"
            /\ \A i \in 2..(n - 1) : calls[i].op \in {"OpenKey", "SetValueEx", "CloseKey"}
            /\ calls[n].op = "SystemParametersInfoW"
            /\ calls[n].val = calls[1].val
            /\ lastApply.ret = TRUE

C3_Witness ==
    /\ Applied
    /\ calls[1].val # lastApply.path
    /\ StoreFailed(calls)
    /\ ~calls[Len(calls)].ok
    /\ lastApply.ret = TRUE

(***************************************************************************)
(* C4 as stated.  set_wallpaper_registry_style writes exactly the pair of  *)
(* the table for the four style names and nothing for any other style.     *)
(***************************************************************************)
C4_WritesExactlyPair ==
    Applied =>
        StoreWrites(calls) =
            IF lastApply.style \in {"tile", "center", "stretch", "fill"}
            THEN << <<"WallpaperStyle", StyleTable(lastApply.style)[1]>>,
                    <<"TileWallpaper", StyleTable(lastApply.style)[2]>> >>
            ELSE <<>>

(***************************************************************************)
(* C4 amended.  For the four style names the values written are the pair   *)
(* of the table, style code first, cut short at the first registry call    *)
(* that fails: the whole pair when no call fails, nothing when the key     *)
(* cannot be opened, only the style code when the second write fails.  For *)
(* any other style nothing is written.                                     *)
(***************************************************************************)
C4_WritesPairUnlessStoreFails ==
    Applied =>
        LET w == StoreWrites(calls)
            known == lastApply.style \in {"tile", "center", "stretch", "fill"}
            pair == IF known
                    THEN << <<"WallpaperStyle", StyleTable(lastApply.style)[1]>>,
                            <<"TileWallpaper", StyleTable(lastApply.style)[2]>> >>
                    ELSE <<>>
        IN  /\ IsPrefix(w, pair)
            /\ ~StoreFailed(calls) => w = pair
            /\ ~calls[2].ok => w = <<>>
            /\ (known /\ ~StoreFailed(calls)) =>
                  /\ registry.WallpaperStyle = StyleTable(lastApply.style)[1]
                  /\ registry.TileWallpaper = StyleTable(lastApply.style)[2]
            /\ \A i \in 1..Len(calls) :
                  (calls[i].op = "SetValueEx" /\ ~calls[i].ok) => Len(w) < Len(pair)

C4_Witness ==
    /\ Applied
    /\ lastApply.style = "fill"
    /\ StoreWrites(calls) = << <<"WallpaperStyle", "10">>, <<"TileWallpaper", "0">> >>

(***************************************************************************)
(* C5 as stated.  load_settings returns a record with the three fields:    *)
(* the default record for an absent or unreadable file, and for a stored   *)
(* record the stored values with the missing fields at their defaults.     *)
(***************************************************************************)
C5_LoadReturnsRecord ==
    pc = "save1" =>
        /\ settings.t = "obj"
        /\ RecordFields \subseteq Keys(settings.items)
        /\ settingsFile.state \in {"absent", "garbage"} => settings = DEFAULT_SETTINGS
        /\ (settingsFile.state = "json" /\ settingsFile.t = "obj") =>
              /\ \A k \in Keys(settingsFile.items) :
                    Get(settings, k) = StoredValue(settingsFile, k)
              /\ \A k \in RecordFields \ Keys(settingsFile.items) :
                    Get(settings, k) = DefaultOf(k)

(***************************************************************************)
(* C6 as stated.  When the application has exited, the settings file holds *)
(* the in-memory record as json.dump writes it.                            *)
(***************************************************************************)
C6_SavedOnExit ==
    (pc = "exited" /\ settingsWritable) =>
        settingsFile = JsonFile("indent2", settings.t, settings.items)

(***************************************************************************)
(* C7 as stated.  Apply Wallpaper with no image selected, or with a        *)
(* selected path that does not exist, shows a warning dialog and changes   *)
(* neither the settings record nor the registry nor the desktop.           *)
(***************************************************************************)
C7_WarnsAndKeepsState ==
    [][(/\ apply_current
        /\ settings.t = "obj"
        /\ \/ Get(settings, "last_wallpaper").s = ""
           \/ ~Exists(Get(settings, "last_wallpaper").s, fsFiles)) =>
          /\ \E i \in 1..Len(dialogs') :
                dialogs'[i] \in {"showwarning:No File", "showwarning:Pillow Missing"}
          /\ calls' = <<>>
          /\ UNCHANGED <<settings, registry, openKeys, cache>>]_vars

(***************************************************************************)
(* C8 as stated.  The normaliser returns the source path and writes        *)
(* nothing to the cache directory when the release does not need a bitmap, *)
(* when the source is a .bmp file, when Pillow is missing and when         *)
(* decoding or encoding fails; a different path is returned only by a      *)
(* successful conversion, and lies in the cache directory.                 *)
(***************************************************************************)
C8_NormalizeAsStated ==
    [][(lastApply'.called /\ Exists(lastApply'.path, fsFiles)) =>
          LET src == lastApply'.path
              res == calls'[1].val
              failed == lastApply'.pillow \in {"decode_fail", "encode_fail",
                                               "encode_partial"}
          IN  /\ (\/ ~RequiresBmp(release) \/ IsBmpFile(src)
                  \/ ~PIL_AVAILABLE \/ failed) => (res = src /\ cache' = cache)
              /\ res # src => (lastApply'.pillow = "ok" /\ InCacheDir(res))]_vars

(***************************************************************************)
(* C8 amended.  The normaliser returns the source path and writes nothing  *)
(* to the cache directory when the release does not need a bitmap, when    *)
(* the source is a .bmp file, when Pillow is missing, when decoding fails  *)
(* and when encoding fails before the cache file is written; when encoding *)
(* fails after the cache file was opened it still returns the source path  *)
(* but leaves that one cache file partly written.  A different path is     *)
(* returned only by a successful conversion; it lies in the cache          *)
(* directory and is the only cache file the call has written.              *)
(***************************************************************************)
C8_NormalizeWritesOnlyWhenEncoding ==
    [][(lastApply'.called /\ Exists(lastApply'.path, fsFiles)) =>
          LET src == lastApply'.path
              res == calls'[1].val
              out == lastApply'.pillow
              others == \A p \in CachePaths \ {BmpPath(src)} : cache'[p] = cache[p]
          IN  /\ (\/ ~RequiresBmp(release) \/ IsBmpFile(src) \/ ~PIL_AVAILABLE) =>
                    (res = src /\ cache' = cache /\ out = "not_used")
              /\ out \in {"decode_fail", "encode_fail"} => (res = src /\ cache' = cache)
              /\ out = "encode_partial" =>
                    (res = src /\ others /\ cache'[BmpPath(src)] = "partial")
              /\ res # src =>
                    (out = "ok" /\ InCacheDir(res) /\ cache'[res] = "bmp" /\ others)
              /\ out = "ok" => res # src]_vars

C8_Witness ==
    /\ Applied
    /\ lastApply.pillow = "encode_partial"
    /\ calls[1].val = lastApply.path
    /\ cache[BmpPath(lastApply.path)] = "partial"

(***************************************************************************)
(* C9.  save(load()) run twice leaves, after the second run, the file the  *)
(* first run left, from every initial settings file.                       *)
(***************************************************************************)
C9_RoundTrip == pc = "done" => settingsFile = fileAfterFirst

C9_Witness ==
    /\ pc = "done"
    /\ settingsFile.state = "json"
    /\ Len(settingsFile.items) = 4
    /\ settingsFile = fileAfterFirst

(***************************************************************************)
(* C10 as stated.  No call of set_wallpaper_registry_style leaves a        *)
(* registry handle open.                                                   *)
(***************************************************************************)
C10_NoOpenHandle == openKeys = 0

====
